---- MODULE Spec2Model ----
(***************************************************************************)
(* A model of bitcoin_tour.py: modular inverse, elliptic-curve point       *)
(* arithmetic, integer / varint / Script / Transaction serialization and   *)
(* ECDSA signing.                                                          *)
(*                                                                         *)
(* Python integers are unbounded.  Integers that go on the wire (up to     *)
(* 2^64 and beyond) and the operands of the low-s test (256-bit) are       *)
(* represented as "Big" values: little-endian sequences of 16-bit limbs    *)
(* without a leading (most significant) zero limb; <<>> is 0.  Byte        *)
(* strings are sequences of integers in 0..255.  The elliptic-curve        *)
(* arithmetic is carried out on small prime fields, in plain integers,     *)
(* with the formulas of the source.                                        *)
(***************************************************************************)
EXTENDS Integers, Sequences, FiniteSets, TLC

VARIABLES
    vi,          \* encode_varint: the argument i (a Big)
    vres,        \* encode_varint: the outcome, [raised, bytes], or NoResult
    ec,          \* point arithmetic: the operands [curve, P, Q, a, b]
    ecres,       \* point arithmetic: the outcome of the last operation
    tx,          \* Transaction object: [version, locktime]
    tx_inputs,   \* list of transaction input dicts
    tx_outputs,  \* list of transaction output dicts
    enc,         \* outcome of the last Transaction.encode call
    sg,          \* sign: the arguments [generator, secret_key, z]
    sig          \* sign: the returned Signature (or NoResult)

vars == <<vi, vres, ec, ecres, tx, tx_inputs, tx_outputs, enc, sg, sig>>

\* ------------------------------------------------------------------ bounds
MaxLimbs == 5      \* limbs of a varint argument (5 limbs reach 2^64 and above)
MaxScalar == 3     \* scalars a, b of a scalar multiplication
MaxInputs == 2     \* inputs of a transaction
MaxOutputs == 1    \* outputs of a transaction
MaxZ == 8          \* message digests z are drawn from 0..MaxZ

NoResult == [done |-> FALSE]

\* the values of the variables of the parts a specification does not use
NoOperands == [curve |-> 0, P |-> 0, Q |-> 0, a |-> 0, b |-> 0]
NoTransaction == [version |-> <<>>, locktime |-> <<>>]
NoArgs == [big |-> FALSE, secret_key |-> 0, z |-> 0]

\* ------------------------------------------------------------ Big integers
LimbBase == 256 * 256

RECURSIVE Limbs(_)
\* the Big value of a non-negative integer
Limbs(i) == IF i = 0 THEN <<>> ELSE <<i % LimbBase>> \o Limbs(i \div LimbBase)

RECURSIVE Val(_)
\* the integer a (small) Big stands for
Val(b) == IF b = <<>> THEN 0 ELSE Head(b) + LimbBase * Val(Tail(b))

Max(S) == CHOOSE m \in S : \A k \in S : k <= m

\* x < y on digit strings without leading zero (Big values, bit strings):
\* the shorter is the smaller; of equal length, the most significant
\* differing digit decides
BigLT(x, y) ==
    IF Len(x) # Len(y) THEN Len(x) < Len(y)
    ELSE LET diff == {k \in 1..Len(x) : x[k] # y[k]}
         IN  diff # {} /\ x[Max(diff)] < y[Max(diff)]

Zeros(k) == [i \in 1..k |-> 0]

\* a digit string without its leading (most significant) zeros
StripZeros(s) ==
    LET nz == {k \in 1..Len(s) : s[k] # 0}
    IN  IF nz = {} THEN <<>> ELSE SubSeq(s, 1, Max(nz))

\* 256^nbytes as a Big
BigPow256(nbytes) ==
    IF nbytes % 2 = 0 THEN Zeros(nbytes \div 2) \o <<1>>
    ELSE Zeros(nbytes \div 2) \o <<256>>

\* byte k (k = 0 the least significant) of a Big
BigByte(i, k) ==
    LET l == (k \div 2) + 1
        limb == IF l <= Len(i) THEN i[l] ELSE 0
    IN  IF k % 2 = 0 THEN limb % 256 ELSE limb \div 256

\* --------------------------------------------------------- helper functions
RECURSIVE inv_loop(_, _, _, _, _, _)
inv_loop(old_r, r, old_s, s, old_t, t) ==
    IF r = 0 THEN old_s
    ELSE LET quotient == old_r \div r
         IN  inv_loop(r, old_r - quotient * r,
                      s, old_s - quotient * s,
                      t, old_t - quotient * t)

\* inv(n, p): extended Euclidean algorithm, Bezout coefficient reduced mod p
inv(n, p) == inv_loop(n, p, 1, 0, 0, 1) % p

\* encode_int(i, nbytes) with the default 'little' byte order, for
\* 0 <= i < 256^nbytes (i.to_bytes raises OverflowError otherwise; every call
\* below is within the range)
encode_int(i, nbytes) == [k \in 1..nbytes |-> BigByte(i, k - 1)]

\* the outcome of a call: an exception raised, or the bytes returned
Raised(e) == [done |-> TRUE, raised |-> e, bytes |-> <<>>]
Returned(b) == [done |-> TRUE, raised |-> "none", bytes |-> b]

\* encode_varint with the 2-byte branch taken up to and including 0x10000
encode_varint_mut(i) ==
    IF BigLT(i, Limbs(253)) THEN Returned(<<Val(i)>>)
    ELSE IF ~ BigLT(Limbs(LimbBase), i) THEN Returned(<<253>> \o encode_int(i, 2))
    ELSE IF BigLT(i, <<0, 0, 1>>) THEN Returned(<<254>> \o encode_int(i, 4))
    ELSE IF BigLT(i, <<0, 0, 0, 0, 1>>) THEN Returned(<<255>> \o encode_int(i, 8))
    ELSE Raised("ValueError")

encode_varint(i) ==
    IF BigLT(i, Limbs(253)) THEN Returned(<<Val(i)>>)
    ELSE IF BigLT(i, Limbs(LimbBase)) THEN Returned(<<253>> \o encode_int(i, 2))
    ELSE IF BigLT(i, <<0, 0, 1>>) THEN Returned(<<254>> \o encode_int(i, 4))
    ELSE IF BigLT(i, <<0, 0, 0, 0, 1>>) THEN Returned(<<255>> \o encode_int(i, 8))
    ELSE Raised("ValueError")

\* ----------------------------------------------------- varint specification
LimbChoices == {0, 1, 252, 253, 255, 65535}

RECURSIVE LimbSeqs(_)
\* the sequences of exactly k limbs
LimbSeqs(k) ==
    IF k = 0 THEN {<<>>}
    ELSE {s \o <<l>> : s \in LimbSeqs(k - 1), l \in LimbChoices}

\* the arguments tried: Big values of at most MaxLimbs limbs (no leading zero)
VarintArgs ==
    {s \in UNION {LimbSeqs(k) : k \in 0..MaxLimbs} : s = <<>> \/ s[Len(s)] # 0}

\* encode_varint is called with one of VarintArgs; nothing else is in use
InitVarint ==
    /\ vi \in VarintArgs
    /\ vres = NoResult
    /\ ec = NoOperands /\ ecres = NoResult
    /\ tx = NoTransaction /\ tx_inputs = <<>> /\ tx_outputs = <<>>
    /\ enc = NoResult
    /\ sg = NoArgs /\ sig = NoResult

\* one call encode_varint(vi)
EncodeVarint ==
    /\ ~ vres.done
    /\ vres' = encode_varint(vi)
    /\ UNCHANGED <<vi, ec, ecres, tx, tx_inputs, tx_outputs, enc, sg, sig>>

NextVarint == EncodeVarint

\* ---- the wire format's decoder, used to state the round trip
\* int.from_bytes(b, 'little') of an even number of bytes, as a Big
FromBytesLE(b) ==
    StripZeros([k \in 1..(Len(b) \div 2) |-> b[2 * k - 1] + 256 * b[2 * k]])

VarintWidth(tag) ==
    IF tag = 253 THEN 2 ELSE IF tag = 254 THEN 4 ELSE IF tag = 255 THEN 8 ELSE 0

\* the value a varint byte string decodes to; Undecodable when the string is
\* not exactly one varint
Undecodable == <<0>>

decode_varint(b) ==
    IF b = <<>> THEN Undecodable
    ELSE IF Len(b) # 1 + VarintWidth(b[1]) THEN Undecodable
    ELSE IF b[1] < 253 THEN Limbs(b[1])
    ELSE FromBytesLE(Tail(b))

\* the smallest of the widths 0 (one byte), 2, 4, 8 that fits i
SmallestWidth(i) ==
    IF BigLT(i, <<253>>) THEN 0
    ELSE IF BigLT(i, BigPow256(2)) THEN 2
    ELSE IF BigLT(i, BigPow256(4)) THEN 4
    ELSE 8

\* C10: encode_varint(i) for 0 <= i < 2^64 is one byte if i < 0xfd, else the
\* tag 0xfd/0xfe/0xff and the 2/4/8-byte little-endian value of the smallest
\* width that fits, and decoding it gives i back; for i >= 2^64 it raises
\* ValueError and returns no bytes.
VarintRoundTrip ==
    vres.done =>
        IF BigLT(vi, BigPow256(8))
        THEN /\ vres.raised = "none"
             /\ Len(vres.bytes) = 1 + SmallestWidth(vi)
             /\ VarintWidth(vres.bytes[1]) = SmallestWidth(vi)
             /\ \A k \in 1..Len(vres.bytes) : vres.bytes[k] \in 0..255
             /\ decode_varint(vres.bytes) = vi
        ELSE vres.raised = "ValueError" /\ vres.bytes = <<>>

\* the boundary 0x10000 has been encoded, in 5 bytes
VarintBoundaryEncoded ==
    /\ vres.done
    /\ vi = <<0, 1>>
    /\ vres.bytes = <<254, 0, 0, 1, 0>>

\* ------------------------------------------------ elliptic curve cryptography
\* Curve(p, a, b)
Curve(p, a, b) == [p |-> p, a |-> a, b |-> b]

\* the curve reference of INF, Point(None, None, None)
NoCurve == Curve(0, 0, 0)

\* Point(curve, x, y)
Point(curve, x, y) == [inf |-> FALSE, curve |-> curve, x |-> x, y |-> y]

\* INF = Point(None, None, None), the one object `== INF` recognises
INF == [inf |-> TRUE, curve |-> NoCurve, x |-> 0, y |-> 0]

\* self + other
Point__add__(self, other) ==
    IF self.inf THEN other
    ELSE IF other.inf THEN self
    ELSE IF self.x = other.x /\ self.y # other.y THEN INF
    ELSE LET p  == self.curve.p
             m  == IF self.x = other.x
                   THEN (3 * self.x * self.x + self.curve.a) * inv(2 * self.y, p)
                   ELSE (self.y - other.y) * inv(self.x - other.x, p)
             rx == (m * m - self.x - other.x) % p
             ry == (-(m * (rx - self.x) + self.y)) % p
         IN  Point(self.curve, rx, ry)

RECURSIVE rmul_loop(_, _, _)
\* the while loop of __rmul__
rmul_loop(k, result, append) ==
    IF k = 0 THEN result
    ELSE rmul_loop(k \div 2,
                   IF k % 2 = 1 THEN Point__add__(result, append) ELSE result,
                   Point__add__(append, append))

\* k * self, for an integer k >= 0 (the assertion of __rmul__)
Point__rmul__(self, k) == rmul_loop(k, INF, self)

\* Generator(G, n)
Generator(G, n) == [G |-> G, n |-> n]

\* --------------------------------------------- point arithmetic specification
\* the curves tried: y^2 = x^3 + 7 over F_13 (group order 7) and over F_17
\* (group order 18, with the point (3, 0) of order 2), and
\* y^2 = x^3 + 2x + 2 over F_17 (group order 19)
Curves == {Curve(13, 0, 7), Curve(17, 0, 7), Curve(17, 2, 2)}

\* (x, y) satisfies y^2 = x^3 + a*x + b (mod p), 0 <= x, y < p
OnCurve(c, x, y) ==
    /\ x \in 0..(c.p - 1)
    /\ y \in 0..(c.p - 1)
    /\ (y * y - (x * x * x + c.a * x + c.b)) % c.p = 0

\* the group of a curve: its points and INF
PointsOf(c) ==
    {INF} \cup {Point(c, x, y) : <<x, y>> \in
                   {q \in (0..(c.p - 1)) \X (0..(c.p - 1)) : OnCurve(c, q[1], q[2])}}

\* the operands: a curve, two of its points and two scalars
InitEC ==
    /\ \E c \in Curves : \E P \in PointsOf(c), Q \in PointsOf(c) :
         \E a \in 0..MaxScalar, b \in 0..MaxScalar :
             ec = [curve |-> c, P |-> P, Q |-> Q, a |-> a, b |-> b]
    /\ ecres = NoResult
    /\ vi = <<>> /\ vres = NoResult
    /\ tx = NoTransaction /\ tx_inputs = <<>> /\ tx_outputs = <<>>
    /\ enc = NoResult
    /\ sg = NoArgs /\ sig = NoResult

\* P + Q and Q + P
Add ==
    /\ ~ ecres.done
    /\ ecres' = [done |-> TRUE, op |-> "add",
                 pq |-> Point__add__(ec.P, ec.Q),
                 qp |-> Point__add__(ec.Q, ec.P)]
    /\ UNCHANGED <<vi, vres, ec, tx, tx_inputs, tx_outputs, enc, sg, sig>>

\* (a+b) * P, a * P, b * P and a * P + b * P
Mul ==
    /\ ~ ecres.done
    /\ LET aP == Point__rmul__(ec.P, ec.a)
           bP == Point__rmul__(ec.P, ec.b)
       IN  ecres' = [done |-> TRUE, op |-> "mul",
                     sum |-> Point__rmul__(ec.P, ec.a + ec.b),
                     aP |-> aP, bP |-> bP,
                     aPbP |-> Point__add__(aP, bP)]
    /\ UNCHANGED <<vi, vres, ec, tx, tx_inputs, tx_outputs, enc, sg, sig>>

NextEC == Add \/ Mul

\* -P = (P.x, -P.y mod p)
Neg(P) == IF P.inf THEN INF ELSE Point(P.curve, P.x, (-P.y) % P.curve.p)

\* INF, or a point of the curve c
InGroup(c, R) == R.inf \/ OnCurve(c, R.x, R.y)

\* C6: P + Q is INF or a point of the curve, and P + Q = Q + P.
GroupLaw ==
    (ecres.done /\ ecres.op = "add") =>
        /\ InGroup(ec.curve, ecres.pq)
        /\ ecres.pq = ecres.qp

\* C7: P + INF = P, INF + P = P, and P + (-P) = INF, also where P.y = 0.
IdentityAndInverse ==
    (ecres.done /\ ecres.op = "add") =>
        /\ ec.Q.inf => (ecres.pq = ec.P /\ ecres.qp = ec.P)
        /\ ec.Q = Neg(ec.P) => ecres.pq = INF

\* C8: (a+b) * P = a * P + b * P, and 0 * P = INF.
ScalarDistributes ==
    (ecres.done /\ ecres.op = "mul") =>
        /\ ecres.sum = ecres.aPbP
        /\ (ec.a + ec.b = 0) => ecres.sum = INF

\* the laws above away from the points of even order: on the curves of odd
\* group order the three claims hold
OddOrder(c) == \A R \in PointsOf(c) : R.inf \/ R.y # 0

LawsOnOddOrderCurves ==
    OddOrder(ec.curve) => (GroupLaw /\ IdentityAndInverse /\ ScalarDistributes)

\* ------------------------------------------------------------------ signing
\* ---- Big values as bit strings (least significant bit first, no leading 0)
ToBits(x) ==
    StripZeros([k \in 1..(16 * Len(x)) |->
                   (x[((k - 1) \div 16) + 1] \div (2 ^ ((k - 1) % 16))) % 2])

RECURSIVE LimbOfBits(_, _, _)
LimbOfBits(bits, from, j) ==
    IF j = 16 \/ from + j + 1 > Len(bits) THEN 0
    ELSE bits[from + j + 1] * (2 ^ j) + LimbOfBits(bits, from, j + 1)

FromBits(bits) ==
    StripZeros([k \in 1..((Len(bits) + 15) \div 16) |->
                   LimbOfBits(bits, 16 * (k - 1), 0)])

\* bits + 1: the carry runs through the low 1 bits up to the first 0 bit
BitsInc(bits) ==
    LET zero == {k \in 1..Len(bits) : bits[k] = 0}
        j    == IF zero = {} THEN Len(bits) + 1
                ELSE CHOOSE k \in zero : \A l \in zero : k <= l
    IN  [k \in 1..(IF zero = {} THEN Len(bits) + 1 ELSE Len(bits)) |->
            IF k < j THEN 0 ELSE IF k = j THEN 1 ELSE bits[k]]

RECURSIVE BigSubLoop(_, _, _)
\* x - y - borrow on limb strings of equal length, x >= y + borrow
BigSubLoop(x, y, borrow) ==
    IF x = <<>> THEN <<>>
    ELSE LET d == Head(x) - Head(y) - borrow
         IN  <<d % LimbBase>>
             \o BigSubLoop(Tail(x), Tail(y), IF d < 0 THEN 1 ELSE 0)

\* x - y on Big values, x >= y
BigSub(x, y) == StripZeros(BigSubLoop(x, y \o Zeros(Len(x) - Len(y)), 0))

\* the significand of a Python float (IEEE 754 binary64) has 53 bits
FloatMantissa == 53

\* float(n) as an exact integer, in bits: n rounded to FloatMantissa
\* significant bits, to nearest, ties to even
RoundToFloat(bits) ==
    IF Len(bits) <= FloatMantissa THEN bits
    ELSE LET d    == Len(bits) - FloatMantissa
             kept == SubSeq(bits, d + 1, Len(bits))
             up   == /\ bits[d] = 1
                     /\ \/ \E k \in 1..(d - 1) : bits[k] = 1
                        \/ kept[1] = 1
         IN  Zeros(d) \o (IF up THEN BitsInc(kept) ELSE kept)

\* 2 * bits
BitsDouble(bits) == IF bits = <<>> THEN <<>> ELSE <<0>> \o bits

\* `s > n / 2`: n / 2 is Python's true division, the float nearest to n/2,
\* which is float(n)/2; the comparison of an int with a float is exact
ExceedsHalf(s, n) == BigLT(RoundToFloat(ToBits(n)), BitsDouble(ToBits(s)))

\* the low-s step of sign: if s > n / 2: s = n - s
sign_low_s(s, n) == IF ExceedsHalf(s, n) THEN BigSub(n, s) ELSE s

\* Signature(r, s)
Signature(r, s) == [r |-> r, s |-> s]

\* sign(secret_key, message, generator), with z the integer of the double
\* SHA-256 of the message and sk the value random.randrange(1, n) returns
sign(secret_key, z, generator, sk) ==
    LET n  == generator.n
        P  == Point__rmul__(generator.G, sk)
        r  == P.x
        s  == (inv(sk, n) * (z + secret_key * r)) % n
    IN  Signature(r, Val(sign_low_s(Limbs(s), Limbs(n))))

\* ---------------------------------------------------- signing specification
\* generators of prime order: (7, 5) of order 7 on y^2 = x^3 + 7 over F_13,
\* and (5, 1) of order 19 on y^2 = x^3 + 2x + 2 over F_17
Generators ==
    {Generator(Point(Curve(13, 0, 7), 7, 5), 7),
     Generator(Point(Curve(17, 2, 2), 5, 1), 19)}

\* the order of secp256k1's generator, the curve the module is written for
Secp256k1Order ==
    <<16705, 53302, 24204, 49106, 41019, 44872, 56550, 47790,
      65534, 65535, 65535, 65535, 65535, 65535, 65535, 65535>>

\* values of inv(sk, n) * (z + secret_key * r) % n tried with that order:
\* 1, (n-1)/2, (n+1)/2, 2^255 - 1, 2^255, 2^255 + 1 and n - 1
BigSValues ==
    LET half == <<8352, 26651, 12102, 57321, 20509, 22436, 28275, 23895,
                  65535, 65535, 65535, 65535, 65535, 65535, 65535, 32767>>
        top  == Zeros(15) \o <<32768>>
    IN  {<<1>>, half, FromBits(BitsInc(ToBits(half))),
         BigSub(top, <<1>>), top, FromBits(BitsInc(ToBits(top))),
         BigSub(Secp256k1Order, <<1>>)}

\* the arguments of sign: a small generator, a secret key in [1, n-1] and a
\* digest z; or a generator of secp256k1's order (big), whose point
\* arithmetic is not carried out here
InitSign ==
    /\ \/ \E g \in Generators : \E d \in 1..(g.n - 1), z \in 0..MaxZ :
            sg = [big |-> FALSE, generator |-> g, secret_key |-> d, z |-> z]
       \/ sg = [big |-> TRUE, n |-> Secp256k1Order]
    /\ sig = NoResult
    /\ vi = <<>> /\ vres = NoResult
    /\ ec = NoOperands /\ ecres = NoResult
    /\ tx = NoTransaction /\ tx_inputs = <<>> /\ tx_outputs = <<>>
    /\ enc = NoResult

\* one call sign(secret_key, message, generator); random.randrange(1, n)
\* returns any sk in [1, n-1]
Sign ==
    /\ ~ sg.big
    /\ ~ sig.done
    /\ \E sk \in 1..(sg.generator.n - 1) :
         LET sgn == sign(sg.secret_key, sg.z, sg.generator, sk)
         IN  sig' = [done |-> TRUE, sk |-> sk, r |-> sgn.r, s |-> sgn.s]
    /\ UNCHANGED <<vi, vres, ec, ecres, tx, tx_inputs, tx_outputs, enc, sg>>

\* the last step of sign (lines 390-394) with a generator of secp256k1's
\* order: the s computed from secret_key, z and sk is any residue mod n
SignLowS ==
    /\ sg.big
    /\ ~ sig.done
    /\ \E s \in BigSValues :
         sig' = [done |-> TRUE, s0 |-> s, s |-> sign_low_s(s, sg.n)]
    /\ UNCHANGED <<vi, vres, ec, ecres, tx, tx_inputs, tx_outputs, enc, sg>>

NextSign == Sign \/ SignLowS

\* the verifier's point u1*G + u2*(d*G), u1 = z*inv(s,n) mod n,
\* u2 = r*inv(s,n) mod n
VerifyPoint ==
    LET n  == sg.generator.n
        G  == sg.generator.G
        w  == inv(sig.s, n)
        u1 == (sg.z * w) % n
        u2 == (sig.r * w) % n
    IN  Point__add__(Point__rmul__(G, u1),
                     Point__rmul__(Point__rmul__(G, sg.secret_key), u2))

\* C3: the signature sign returns satisfies the ECDSA verification equation:
\* the verifier's point is not INF and its x-coordinate is r.
SignatureVerifies ==
    (sig.done /\ ~ sg.big) => (~ VerifyPoint.inf /\ VerifyPoint.x = sig.r)

\* C4: both components of the signature sign returns are in [1, n-1].
SignatureInRange ==
    (sig.done /\ ~ sg.big) =>
        /\ sig.r \in 1..(sg.generator.n - 1)
        /\ sig.s \in 1..(sg.generator.n - 1)

\* C5: the s sign returns satisfies s <= n/2 (2*s <= n).
LowS ==
    sig.done =>
        IF sg.big THEN ~ BigLT(ToBits(sg.n), BitsDouble(ToBits(sig.s)))
        ELSE 2 * sig.s <= sg.generator.n

\* what does hold of sign: away from s = 0 the signature verifies, and for
\* orders below 2^53 the returned s is at most n/2
SignVerifiesUnlessZero ==
    (sig.done /\ ~ sg.big /\ sig.s # 0) =>
        (~ VerifyPoint.inf /\ VerifyPoint.x = sig.r)

LowSForSmallOrders == (sig.done /\ ~ sg.big) => 2 * sig.s <= sg.generator.n

\* ------------------------------------------------------------- transactions
\* the commands of a Script: an int (an opcode), a bytes object (an element)
\* or, as the annotation of publickey_hash allows, a str
IntCmd(i) == [kind |-> "int", int |-> i, data |-> <<>>]
BytesCmd(b) == [kind |-> "bytes", int |-> 0, data |-> b]
StrCmd(chars) == [kind |-> "str", int |-> 0, data |-> chars]

\* Script(cmds); NoScript is None, the default of script_sig
Script(cmds) == [none |-> FALSE, cmds |-> cmds]
NoScript == [none |-> TRUE, cmds |-> <<>>]

RECURSIVE Join(_)
\* b''.join(out)
Join(out) == IF out = <<>> THEN <<>> ELSE Head(out) \o Join(Tail(out))

\* the loop of Script.encode: an int is one byte, a bytes object is its
\* length and its content (the assertion length < 75 holds of every element
\* here), anything else adds nothing
cmd_out(cmd) ==
    IF cmd.kind = "int" THEN encode_int(Limbs(cmd.int), 1)
    ELSE IF cmd.kind = "bytes"
         THEN encode_int(Limbs(Len(cmd.data)), 1) \o cmd.data
    ELSE <<>>

\* Script.encode()
Script_encode(self) ==
    LET ret == Join([k \in 1..Len(self.cmds) |-> cmd_out(self.cmds[k])])
    IN  encode_varint(Limbs(Len(ret))).bytes \o ret

\* Transaction(version, locktime)
Transaction(version, locktime) == [version |-> version, locktime |-> locktime]

\* Transaction.create_transaction_input
create_transaction_input(prev_transaction_id, prev_transaction_idx, publickey_hash, script_sig, sequence) ==
    [prev_transaction_id |-> prev_transaction_id,
     prev_transaction_idx |-> prev_transaction_idx,
     script_sig |-> script_sig,
     sequence |-> sequence,
     prev_transaction_script_pubkey |->
         Script(<<IntCmd(118), IntCmd(169), publickey_hash,
                  IntCmd(126), IntCmd(172)>>)]

\* b[::-1]
Reversed(b) == [k \in 1..Len(b) |-> b[Len(b) + 1 - k]]

\* Transaction.encode_transaction_input; script_override is "None", "True"
\* or "False"; with "None" and script_sig None, None.encode() raises
encode_transaction_input(transaction_input, script_override) ==
    LET head == Reversed(transaction_input.prev_transaction_id)
                \o encode_int(transaction_input.prev_transaction_idx, 4)
        tail == encode_int(transaction_input.sequence, 4)
    IN  IF script_override = "None"
        THEN IF transaction_input.script_sig.none
             THEN Raised("AttributeError")
             ELSE Returned(head \o Script_encode(transaction_input.script_sig)
                           \o tail)
        ELSE IF script_override = "True"
        THEN Returned(head
                      \o Script_encode(
                             transaction_input.prev_transaction_script_pubkey)
                      \o tail)
        ELSE IF script_override = "False"
        THEN Returned(head \o Script_encode(Script(<<>>)) \o tail)
        ELSE Raised("ValueError")

\* Transaction.create_transaction_output
create_transaction_output(amount, script_pubkey) ==
    [amount |-> amount, script_pubkey |-> script_pubkey]

\* Transaction.encode_transaction_output
encode_transaction_output(transaction_output) ==
    encode_int(transaction_output.amount, 8)
    \o Script_encode(transaction_output.script_pubkey)

\* the list `out` of Transaction.encode, given the outcome of encoding each
\* input and whether the sighash type is appended
encode_out(self, ins, transaction_outputs, trailer) ==
    <<encode_int(self.version, 4), encode_varint(Limbs(Len(ins))).bytes>>
    \o [i \in 1..Len(ins) |-> ins[i].bytes]
    \o <<encode_varint(Limbs(Len(transaction_outputs))).bytes>>
    \o [i \in 1..Len(transaction_outputs) |->
           encode_transaction_output(transaction_outputs[i])]
    \o <<encode_int(self.locktime, 4),
         IF trailer THEN encode_int(Limbs(1), 4) ELSE <<>> >>

\* the outcome of Transaction.encode: the exception of the first input that
\* raises, or the list out and its join
encode_result(ins, out) ==
    LET bad == {i \in 1..Len(ins) : ins[i].raised # "none"}
    IN  IF bad # {}
        THEN [done |-> TRUE,
              raised |-> ins[CHOOSE i \in bad : \A k \in bad : i <= k].raised,
              out |-> <<>>, bytes |-> <<>>]
        ELSE [done |-> TRUE, raised |-> "none", out |-> out,
              bytes |-> Join(out)]

\* Transaction.encode with the input at list position sig_index + 1 (one too
\* far) taken for the input being signed
Transaction_encode_shifted(self, transaction_inputs, transaction_outputs, sig_index) ==
    LET ins == [i \in 1..Len(transaction_inputs) |->
                   encode_transaction_input(transaction_inputs[i],
                       IF sig_index = -1 THEN "None"
                       ELSE IF sig_index = i THEN "True" ELSE "False")]
    IN  encode_result(ins, encode_out(self, ins, transaction_outputs,
                                      sig_index # -1))

\* Transaction.encode with the sighash type appended for sig_index >= 0 only
Transaction_encode_nonneg(self, transaction_inputs, transaction_outputs, sig_index) ==
    LET ins == [i \in 1..Len(transaction_inputs) |->
                   encode_transaction_input(transaction_inputs[i],
                       IF sig_index = -1 THEN "None"
                       ELSE IF sig_index = i - 1 THEN "True" ELSE "False")]
    IN  encode_result(ins, encode_out(self, ins, transaction_outputs,
                                      sig_index >= 0))

\* Transaction.encode(transaction_inputs, transaction_outputs, sig_index);
\* enumerate counts from 0, the sequences here from 1
Transaction_encode(self, transaction_inputs, transaction_outputs, sig_index) ==
    LET ins == [i \in 1..Len(transaction_inputs) |->
                   encode_transaction_input(transaction_inputs[i],
                       IF sig_index = -1 THEN "None"
                       ELSE IF sig_index = i - 1 THEN "True" ELSE "False")]
    IN  encode_result(ins, encode_out(self, ins, transaction_outputs,
                                      sig_index # -1))

\* ------------------------------------------------ transaction specification
\* the outputs spent: (previous transaction id of 32 bytes, previous index,
\* sequence), the sequence 0xffffffff (the default) or 0xfffffffe
PrevOuts ==
    {<<[k \in 1..32 |-> k], Limbs(0), <<65535, 65535>> >>,
     <<[k \in 1..32 |-> 255 - 3 * k], Limbs(1), <<65534, 65535>> >>}

\* public-key hashes: 20 bytes, or the 40 hex digits as a str
PubkeyHashes ==
    {BytesCmd([k \in 1..20 |-> (11 * k) % 256]),
     StrCmd([k \in 1..40 |-> 48 + (k % 10)])}

\* unlocking scripts: None, or <signature> <public key> (shortened)
ScriptSigs ==
    {NoScript,
     Script(<<BytesCmd(<<48, 6, 2, 1, 5, 2, 1, 3, 1>>),
              BytesCmd(<<2, 121, 190, 102>>)>>)}

\* outputs: 50000 and 2^32 + 1 satoshis to a P2PKH script
TxOutputs ==
    {create_transaction_output(amount,
         Script(<<IntCmd(118), IntCmd(169),
                  BytesCmd([k \in 1..20 |-> (7 * k) % 256]),
                  IntCmd(136), IntCmd(172)>>)) :
       amount \in {Limbs(50000), <<1, 0, 1>>}}

SigIndexes == (-2)..MaxInputs

\* a Transaction of version 1 and locktime 0 (the default), or of version 2
\* and locktime 500, with no inputs and outputs made yet
InitTx ==
    /\ tx \in {Transaction(Limbs(1), Limbs(0)), Transaction(Limbs(2), <<500>>)}
    /\ tx_inputs = <<>>
    /\ tx_outputs = <<>>
    /\ enc = NoResult
    /\ vi = <<>> /\ vres = NoResult
    /\ ec = NoOperands /\ ecres = NoResult
    /\ sg = NoArgs /\ sig = NoResult

\* tx.create_transaction_input(...), appended to the list of inputs
CreateInput ==
    /\ ~ enc.done
    /\ Len(tx_inputs) < MaxInputs
    /\ \E po \in PrevOuts, h \in PubkeyHashes, ss \in ScriptSigs :
         tx_inputs' = Append(tx_inputs,
                             create_transaction_input(po[1], po[2], h, ss,
                                                      po[3]))
    /\ UNCHANGED <<vi, vres, ec, ecres, tx, tx_outputs, enc, sg, sig>>

\* tx.create_transaction_output(...), appended to the list of outputs
CreateOutput ==
    /\ ~ enc.done
    /\ Len(tx_outputs) < MaxOutputs
    /\ \E o \in TxOutputs : tx_outputs' = Append(tx_outputs, o)
    /\ UNCHANGED <<vi, vres, ec, ecres, tx, tx_inputs, enc, sg, sig>>

\* tx.encode(tx_inputs, tx_outputs, sig_index)
Encode ==
    /\ ~ enc.done
    /\ \E j \in SigIndexes :
         LET res == Transaction_encode(tx, tx_inputs, tx_outputs, j)
         IN  enc' = [done |-> TRUE, sig_index |-> j, raised |-> res.raised,
                     out |-> res.out, bytes |-> res.bytes]
    /\ UNCHANGED <<vi, vres, ec, ecres, tx, tx_inputs, tx_outputs, sg, sig>>

NextTx == CreateInput \/ CreateOutput \/ Encode

\* the chunk of `out` that encodes input i (i = 1 the first): out holds the
\* version and the input count before the inputs
InputChunk(i) == enc.out[2 + i]

\* the encoding of an input's fields around a given encoded script
InputLayout(ti, script_bytes) ==
    Reversed(ti.prev_transaction_id) \o encode_int(ti.prev_transaction_idx, 4)
    \o script_bytes \o encode_int(ti.sequence, 4)

\* input ti as the sig_index = -1 encoding emits it when its unlocking
\* script is `script`
FinalEncoding(ti, script) ==
    encode_transaction_input([ti EXCEPT !.script_sig = script], "None").bytes

\* the sighash type, 1 in 4 little-endian bytes
SighashTrailer == <<1, 0, 0, 0>>

\* the sighash type follows the locktime at the end of the encoding
TrailerPresent ==
    /\ enc.out[Len(enc.out)] = SighashTrailer
    /\ enc.bytes = Join(SubSeq(enc.out, 1, Len(enc.out) - 1)) \o SighashTrailer

\* the encoding ends with the locktime
TrailerAbsent ==
    /\ enc.out[Len(enc.out)] = <<>>
    /\ enc.bytes = Join(SubSeq(enc.out, 1, Len(enc.out) - 1))

\* C1: with 0 <= sig_index = j < len(inputs), input j is encoded with the
\* locking script of the output it spends, every other input with the empty
\* script, and the previous transaction id, previous index and sequence of
\* each input exactly as the sig_index = -1 encoding emits them.
SighashEncoding ==
    (enc.done /\ enc.sig_index \in 0..(Len(tx_inputs) - 1)) =>
        /\ enc.raised = "none"
        /\ \A i \in 1..Len(tx_inputs) :
             LET ti == tx_inputs[i]
                 locking == ti.prev_transaction_script_pubkey
             IN  IF i - 1 = enc.sig_index
                 THEN /\ InputChunk(i)
                           = InputLayout(ti, Script_encode(locking))
                      /\ InputChunk(i) = FinalEncoding(ti, locking)
                 ELSE /\ InputChunk(i) = InputLayout(ti, <<0>>)
                      /\ InputChunk(i) = FinalEncoding(ti, Script(<<>>))

\* the second of two inputs has been signed for: it carries its 20-byte-hash
\* locking script and the first input the empty script
SecondInputSigned ==
    /\ enc.done
    /\ Len(tx_inputs) = 2
    /\ enc.sig_index = 1
    /\ enc.raised = "none"
    /\ tx_inputs[2].prev_transaction_script_pubkey.cmds[3].kind = "bytes"
    /\ InputChunk(1) = InputLayout(tx_inputs[1], <<0>>)
    /\ InputChunk(2) # InputLayout(tx_inputs[2], <<0>>)

\* C2 as stated: the sighash type is appended if and only if sig_index >= 0.
TrailerIffNonNegative ==
    (enc.done /\ enc.raised = "none") =>
        IF enc.sig_index >= 0 THEN TrailerPresent ELSE TrailerAbsent

\* C2, amended: the sighash type is appended after the locktime if and only
\* if sig_index # -1; with sig_index = -1 every input is encoded with its
\* script_sig (and the call raises only when an input has none).
TrailerIffNotMinusOne ==
    enc.done =>
        /\ enc.raised = "none" =>
             IF enc.sig_index # -1 THEN TrailerPresent ELSE TrailerAbsent
        /\ (enc.raised = "none" /\ enc.sig_index = -1) =>
             \A i \in 1..Len(tx_inputs) :
                 /\ ~ tx_inputs[i].script_sig.none
                 /\ InputChunk(i)
                      = InputLayout(tx_inputs[i],
                                    Script_encode(tx_inputs[i].script_sig))
        /\ enc.raised # "none" =>
             /\ enc.sig_index = -1
             /\ \E i \in 1..Len(tx_inputs) : tx_inputs[i].script_sig.none

\* an encoding with sig_index = -2 carries the sighash type
TrailerAtMinusTwo ==
    /\ enc.done
    /\ enc.sig_index = -2
    /\ Len(tx_inputs) >= 1
    /\ TrailerPresent

\* C9: the locking script create_transaction_input builds from a 20-byte
\* hash h encodes as 0x19 0x76 0xa9 0x14 <h> 0x88 0xac.
P2PKHTemplate ==
    \A i \in 1..Len(tx_inputs) :
        LET locking == tx_inputs[i].prev_transaction_script_pubkey
            h == locking.cmds[3]
        IN  (h.kind = "bytes" /\ Len(h.data) = 20) =>
                Script_encode(locking)
                  = <<25, 118, 169, 20>> \o h.data \o <<136, 172>>

\* ------------------------------------------------------------ specifications
SpecVarint == InitVarint /\ [][NextVarint]_vars

SpecEC == InitEC /\ [][NextEC]_vars

SpecSign == InitSign /\ [][NextSign]_vars

SpecTx == InitTx /\ [][NextTx]_vars

====
